---- MODULE Spec2Model ----
(***************************************************************************)
(* Model of the RAG server of rag-app: the credential store                *)
(* (services/aws_refresh_service.py), the ingestion service                *)
(* (services/ingestion_service.py, ingestion/embeddings.py,                *)
(* ingestion/pipeline.py), the retrieval service                           *)
(* (services/retrieval_service.py), the generation service                 *)
(* (services/generation_service.py) and the two controllers                *)
(* (controllers/ingestion.py, controllers/generation.py).                  *)
(***************************************************************************)
EXTENDS Integers, Sequences, FiniteSets, TLC

(***************************************************************************)
(* Bounds of the model.                                                    *)
(***************************************************************************)
\* number of clock advances in one behaviour
MaxTicks == 3

(***************************************************************************)
(* Program constants.                                                      *)
(***************************************************************************)
\* refresh(cls, duration: int = 3600)
Duration == 3600
\* cls._expiration = time.time() + duration - 60
ExpiryBuffer == 60

\* the worker threads of the server that may call get_credentials
Threads == {"w1", "w2"}

\* the amounts of seconds by which the clock advances between two steps
TickSteps == {10, 61, 3530}


(***************************************************************************)
(* Provider identifiers and the backends behind them.                      *)
(***************************************************************************)
\* the identifiers detect_embedding_dim dispatches on
DetectProviders == {"bedrock", "openai", "huggingface", "cohere", "google"}

\* the identifiers generate_embeddings dispatches on
RemoteEmbedProviders == {"openai", "bedrock", "huggingface", "cohere"}
EmbedProviders == {"sentence-transformer"} \cup RemoteEmbedProviders

\* the identifiers a request or the environment may carry; "mistral" is an
\* identifier neither dispatcher knows
EmbeddingIds == EmbedProviders \cup DetectProviders \cup {"mistral"}

\* the identifiers call_llm dispatches on, in the order of its branches
LlmProviders == {"openai", "bedrock", "ollama", "huggingface", "cohere",
                 "anthropic", "azure", "google"}
LlmIds == LlmProviders \cup {"mistral"}

\* SentenceTransformer("all-MiniLM-L6-v2") returns vectors of this length
LocalDim == 384

\* length of the vectors the configured model of each backend returns
DimOf == [p \in EmbeddingIds |->
            CASE p = "sentence-transformer" -> LocalDim
              [] p = "huggingface" -> LocalDim
              [] p = "openai" -> 1536
              [] p = "bedrock" -> 1024
              [] p = "cohere" -> 1024
              [] p = "google" -> 768
              [] OTHER -> 0]

(***************************************************************************)
(* Texts are sequences of characters; a character is a small number, and   *)
(* Space stands for every whitespace character.                            *)
(***************************************************************************)
Space == 0

Min(a, b) == IF a <= b THEN a ELSE b

Max(a, b) == IF a >= b THEN a ELSE b

Abs(a) == IF a < 0 THEN 0 - a ELSE a

RECURSIVE SumSeq(_)
SumSeq(s) == IF s = <<>> THEN 0 ELSE Head(s) + SumSeq(Tail(s))

\* the position of a text in the embedding space: what a backend computes
\* from the text (every backend is a function of the text)
Val(text) == SumSeq(text) % 4

\* the vector a provider returns for a text
Embed(p, text) == [len |-> DimOf[p], by |-> p, val |-> Val(text)]

\* embedding <=> query: the distance operator of the storage
Distance(a, b) == Abs(a.val - b.val)

\* text.split(): the maximal runs of characters that are not whitespace, from
\* character i on; word is the run read so far
RECURSIVE SplitFrom(_, _, _)
SplitFrom(text, i, word) ==
    LET ended == IF word = <<>> THEN <<>> ELSE <<word>>
    IN  IF i > Len(text) THEN ended
        ELSE IF text[i] = Space THEN ended \o SplitFrom(text, i + 1, <<>>)
        ELSE SplitFrom(text, i + 1, Append(word, text[i]))

split(text) == SplitFrom(text, 1, <<>>)

\* " ".join(words)
RECURSIVE join(_)
join(words) ==
    IF words = <<>> THEN <<>>
    ELSE IF Len(words) = 1 THEN Head(words)
    ELSE Head(words) \o <<Space>> \o join(Tail(words))

\* words[start:end] for start >= 0: an end below 0 counts from the end of the
\* list, and both are clipped to the list
Slice(words, start, end) ==
    LET n == Len(words)
        e == IF end < 0 THEN Max(end + n, 0) ELSE Min(end, n)
    IN  SubSeq(words, Min(start, n) + 1, e)

\* a loop that builds a window before it tests its start
RECURSIVE ChunkFrom_TestAfter(_, _, _, _)
ChunkFrom_TestAfter(words, start, max_length, overlap) ==
    LET end == Min(start + max_length, Len(words))
        next == start + max_length - overlap
    IN  <<join(Slice(words, start, end))>> \o
        (IF next < Len(words)
         THEN ChunkFrom_TestAfter(words, next, max_length, overlap)
         ELSE <<>>)

\* chunk_text: the loop `while start < len(words)`
RECURSIVE ChunkFrom(_, _, _, _)
ChunkFrom(words, start, max_length, overlap) ==
    IF start < Len(words)
    THEN LET end == Min(start + max_length, Len(words))
         IN  <<join(Slice(words, start, end))>> \o
             ChunkFrom(words, start + max_length - overlap, max_length, overlap)
    ELSE <<>>

\* a chunk_text that tests its parameters only when there is a word to chunk
chunk_text_TestInLoop(text, max_length, overlap) ==
    IF overlap >= max_length /\ split(text) # <<>>
    THEN [ok |-> FALSE, chunks |-> <<>>]
    ELSE [ok |-> TRUE,
          chunks |-> IF overlap >= max_length THEN <<>>
                     ELSE ChunkFrom(split(text), 0, max_length, overlap)]

\* chunk_text(text, max_length, overlap); ok = FALSE is the ValueError
chunk_text(text, max_length, overlap) ==
    IF overlap >= max_length
    THEN [ok |-> FALSE, chunks |-> <<>>]
    ELSE [ok |-> TRUE,
          chunks |-> ChunkFrom(split(text), 0, max_length, overlap)]

\* a loop that puts every new embedding in front of the list
RECURSIVE EmbedEach_Prepend(_, _)
EmbedEach_Prepend(p, text_chunks) ==
    IF text_chunks = <<>> THEN <<>>
    ELSE EmbedEach_Prepend(p, Tail(text_chunks)) \o
         <<Embed(p, Head(text_chunks))>>

\* generate_embeddings: `for chunk in text_chunks`, one request per chunk,
\* the embedding of its answer appended to the list; model.encode of the local
\* model returns the embeddings of the chunks in the order of the chunks
RECURSIVE EmbedEach(_, _)
EmbedEach(p, text_chunks) ==
    IF text_chunks = <<>> THEN <<>>
    ELSE <<Embed(p, Head(text_chunks))>> \o EmbedEach(p, Tail(text_chunks))

\* generate_embeddings(text_chunks) under settings.embedding_provider = p;
\* model is the module-level SentenceTransformer (loaded or None), up says
\* whether the backend answers the requests of this call with a well-formed
\* payload.
\* err: "" none, "unsupported" the ValueError of the last branch,
\* "provider" any error of the backend call or of reading its payload;
\* calls: requests sent to the backend
generate_embeddings(p, model, up, text_chunks) ==
    IF p = "sentence-transformer"
    THEN IF model
         THEN [err |-> "", calls |-> 0,
               embeddings |-> EmbedEach(p, text_chunks)]
         ELSE [err |-> "provider", calls |-> 0, embeddings |-> <<>>]
    ELSE IF p \in RemoteEmbedProviders
    THEN IF up \/ text_chunks = <<>>
         THEN [err |-> "", calls |-> Len(text_chunks),
               embeddings |-> EmbedEach(p, text_chunks)]
         ELSE [err |-> "provider", calls |-> 1, embeddings |-> <<>>]
    ELSE [err |-> "unsupported", calls |-> 0, embeddings |-> <<>>]

\* process_papers: the loop over the papers from index i on; down holds the
\* indexes of the papers for whose requests the backend fails; the first
\* error of chunk_text or generate_embeddings ends the loop and is raised
RECURSIVE ProcessFrom(_, _, _, _, _, _, _)
ProcessFrom(papers, i, chunk_size, overlap, p, model, down) ==
    IF i > Len(papers)
    THEN [err |-> "", processed |-> <<>>]
    ELSE LET c == chunk_text(papers[i].summary, chunk_size, overlap)
             e == generate_embeddings(p, model, i \notin down, c.chunks)
             rest == ProcessFrom(papers, i + 1, chunk_size, overlap,
                                 p, model, down)
         IN  IF ~c.ok THEN [err |-> "config", processed |-> <<>>]
             ELSE IF e.err # "" THEN [err |-> e.err, processed |-> <<>>]
             ELSE IF rest.err # "" THEN rest
             ELSE [err |-> "",
                   processed |-> <<[title |-> papers[i].title,
                                    summary |-> papers[i].summary,
                                    chunks |-> c.chunks,
                                    embeddings |-> e.embeddings]>> \o
                                 rest.processed]

process_papers(papers, chunk_size, overlap, p, model, down) ==
    ProcessFrom(papers, 1, chunk_size, overlap, p, model, down)

(***************************************************************************)
(* The storage: ORDER BY similarity ASC LIMIT top_k.                       *)
(***************************************************************************)
\* the orders in which the storage may visit n rows: the order of insertion
\* and its reverse
Scans(n) == {[i \in 1..n |-> i], [i \in 1..n |-> n + 1 - i]}

Take(s, k) == SubSeq(s, 1, Min(k, Len(s)))

\* insert x behind every element that is not farther than x
RECURSIVE InsertByScore(_, _)
InsertByScore(sorted, x) ==
    IF sorted = <<>> THEN <<x>>
    ELSE IF Head(sorted).similarity_score <= x.similarity_score
    THEN <<Head(sorted)>> \o InsertByScore(Tail(sorted), x)
    ELSE <<x>> \o sorted

\* a query without its ORDER BY clause
OrderBySimilarity_Unordered(s) == s

\* ORDER BY similarity ASC
RECURSIVE OrderBySimilarity(_)
OrderBySimilarity(s) ==
    IF s = <<>> THEN <<>>
    ELSE InsertByScore(OrderBySimilarity(SubSeq(s, 1, Len(s) - 1)), s[Len(s)])

\* a query without its LIMIT clause
NearestNeighbours_NoLimit(rows, q, top_k, scan) ==
    OrderBySimilarity([i \in 1..Len(rows) |->
                         [id |-> rows[scan[i]].id,
                          title |-> rows[scan[i]].title,
                          chunk |-> rows[scan[i]].chunk,
                          similarity_score |->
                              Distance(rows[scan[i]].embedding, q)]])

\* SELECT id, title, chunk, embedding <=> q AS similarity FROM papers
\* ORDER BY similarity ASC LIMIT top_k; scan is the order in which the
\* storage visits the rows, which decides the order of equal distances
NearestNeighbours(rows, q, top_k, scan) ==
    LET scored == [i \in 1..Len(rows) |->
                     [id |-> rows[scan[i]].id,
                      title |-> rows[scan[i]].title,
                      chunk |-> rows[scan[i]].chunk,
                      similarity_score |->
                          Distance(rows[scan[i]].embedding, q)]]
    IN  Take(OrderBySimilarity(scored), top_k)

\* the storage evaluates <=> on a row only when it has to produce a row; it
\* rejects vectors whose length differs from the width of the column
QueryRejected(table, q, top_k) ==
    \/ top_k < 0
    \/ top_k > 0 /\ table.rows # <<>> /\ table.width # q.len

\* INSERT INTO papers ... into a column vector(width)
InsertRejected(width, values) ==
    \E i \in 1..Len(values) : values[i].embedding.len # width

(***************************************************************************)
(* rebuild_vector_db: the rows built from the processed papers.            *)
(***************************************************************************)
\* for chunk, embedding in zip(entry["chunks"], entry["embeddings"])
EntryValues(entry) ==
    [i \in 1..Min(Len(entry.chunks), Len(entry.embeddings)) |->
       [title |-> entry.title, chunk |-> entry.chunks[i],
        embedding |-> entry.embeddings[i]]]

RECURSIVE InsertValues(_)
InsertValues(processed) ==
    IF processed = <<>> THEN <<>>
    ELSE EntryValues(Head(processed)) \o InsertValues(Tail(processed))

\* id SERIAL PRIMARY KEY: the rows get the next numbers of the sequence
WithIds(values, serial) ==
    [i \in 1..Len(values) |->
       [id |-> serial + i, title |-> values[i].title,
        chunk |-> values[i].chunk, embedding |-> values[i].embedding]]

\* a table created with a fixed width instead of the detected one
CreateTableWidth_Fixed(dim) == LocalDim

\* CREATE TABLE papers (... embedding vector({dim}))
CreateTableWidth(dim) == dim

\* a rebuild that creates the table only when there is none, and so keeps
\* the table it finds
DropAndCreate_Kept(table, dim, by) == [table EXCEPT !.builtBy = by]

\* rebuild_vector_db: DROP TABLE IF EXISTS papers; CREATE TABLE papers (id
\* SERIAL PRIMARY KEY, ..., embedding vector(dim)): a table without rows whose
\* id sequence starts anew
DropAndCreate(table, dim, by) ==
    [width |-> CreateTableWidth(dim), rows |-> <<>>, serial |-> 0,
     builtBy |-> by]

\* execute_values(cursor, insert_query, values) on a table that takes the
\* values
Inserted(table, values) ==
    [table EXCEPT !.rows = @ \o WithIds(values, table.serial),
                  !.serial = @ + Len(values)]

\* insert_papers_to_pgvector(data, db_config) on the committed table: connect,
\* the assert on every entry while the values are built, execute_values,
\* commit.  err: "storage" the connection fails, "assertion" the
\* AssertionError, "dimension" the storage rejects a vector
insert_papers_to_pgvector(data, table, dbUp) ==
    LET values == InsertValues(data)
    IN  IF ~dbUp THEN [err |-> "storage", table |-> table]
        ELSE IF \E i \in 1..Len(data) :
                  Len(data[i].chunks) # Len(data[i].embeddings)
        THEN [err |-> "assertion", table |-> table]
        ELSE IF InsertRejected(table.width, values)
        THEN [err |-> "dimension", table |-> table]
        ELSE [err |-> "", table |-> Inserted(table, values)]

(***************************************************************************)
(* call_llm.                                                               *)
(***************************************************************************)
\* what a generation backend may answer: a well-formed completion; an HTTP
\* error status with a JSON object as body; a success status with a JSON
\* object of another shape; a body that is not JSON; no answer at all
Replies == {"ok", "http_error_json", "unexpected_json", "non_json",
            "exception"}

\* the clients that raise on an HTTP error status (OpenAI SDK, boto3)
SdkProviders == {"openai", "bedrock"}

\* the providers whose module-level handle is set at import time, for the one
\* provider configured then
HandleProviders == {"openai", "bedrock", "azure", "huggingface", "cohere",
                    "anthropic", "google"}

\* the branches that read the payload with .get(key, "")
LenientProviders == {"bedrock", "ollama", "huggingface", "cohere", "anthropic"}

\* the branches whose request carries a temperature, and a limit of tokens
TemperatureProviders == {"openai", "bedrock", "cohere", "anthropic", "azure",
                         "google"}
MaxTokensProviders == {"openai", "bedrock", "cohere", "anthropic", "azure"}

\* a parameter the request does not carry
Unset == -1

\* the sampling parameters of the request call_llm sends for provider p:
\* settings.temperature and settings.max_tokens where the branch sends them
SentSampling(p, settings_temperature, settings_max_tokens) ==
    [temperature |-> IF p \in TemperatureProviders
                     THEN settings_temperature ELSE Unset,
     max_tokens |-> IF p \in MaxTokensProviders
                    THEN settings_max_tokens ELSE Unset]

\* call_llm(prompt) under settings.llm_provider = p; handle says whether the
\* module-level handle of p was set at import time.
\* raised: an exception leaves call_llm; response: "text" a completion,
\* "empty" the empty string, "error" the string "Error: ..." of the except
\* branch; calls: requests sent to the backend
call_llm(p, handle, reply) ==
    LET failed == [raised |-> FALSE, response |-> "error", calls |-> 0]
        sent(r) == [raised |-> FALSE, response |-> r, calls |-> 1]
        \* a backend called without its key does not answer "ok"
        answer == IF p \in {"cohere", "anthropic", "google"} /\ ~handle
                     /\ reply = "ok"
                  THEN "http_error_json" ELSE reply
    IN  IF p \notin LlmProviders THEN failed
        ELSE IF p \in {"openai", "bedrock", "huggingface", "azure"} /\ ~handle
        THEN failed
        ELSE IF answer = "ok" THEN sent("text")
        ELSE IF answer \in {"exception", "non_json"} THEN sent("error")
        ELSE IF p \in SdkProviders /\ answer = "http_error_json"
        THEN sent("error")
        ELSE IF p \in LenientProviders THEN sent("empty")
        ELSE sent("error")

VARIABLES
    \* ---- aws_refresh_service.CredentialStore ----
    _cache,        \* 0 for the empty dict {}, 1 for a dict of credentials
    _expiration,   \* CredentialStore._expiration
    now,           \* time.time()
    ticks,         \* number of clock advances so far
    lastRefreshAt, \* time.time() read by the last completed refresh
    call,          \* per thread: its get_credentials call in progress
    \* ---- the environment the processes were started with ----
    env_embedding_provider,  \* EMBEDDING_PROVIDER
    env_llm_provider,        \* LLM_PROVIDER
    temperature,             \* TEMPERATURE, in tenths: settings.temperature
    max_tokens,              \* MAX_TOKENS: settings.max_tokens
    \* ---- config.settings of the server process ----
    embedding_provider,      \* settings.embedding_provider
    llm_provider,            \* settings.llm_provider
    \* ---- the storage ----
    papers,        \* the committed papers table: the width of its embedding
                   \* column, its rows, the last number of its id sequence,
                   \* and the provider of the rebuild that created it
    \* ---- requests ----
    rb,            \* the /rebuild request in progress
    gen,           \* the position of the /generate request in progress
    out,           \* what the request or run that just ended hands to its
                   \* caller; [op |-> "none"] when nothing is being handed
    \* ---- the chat client ----
    session_state  \* st.session_state of the one browser session

credVars == <<_cache, _expiration, now, ticks, lastRefreshAt, call>>

appVars == <<env_embedding_provider, env_llm_provider, temperature,
             max_tokens, embedding_provider, llm_provider, papers, rb, gen,
             out, session_state>>

vars == <<_cache, _expiration, now, ticks, lastRefreshAt, call,
          env_embedding_provider, env_llm_provider, temperature, max_tokens,
          embedding_provider, llm_provider, papers, rb, gen, out,
          session_state>>

IdleCall == [pc |-> "idle", attempts |-> 0, due |-> FALSE, elapsed |-> 0,
             entryCache |-> 0, entryExp |-> 0, result |-> 0,
             afterRaise |-> FALSE]

\* the class attributes of CredentialStore
Finished(c) == c.pc \in {"returned", "raised"}

\* call keeps the record of the one call that ended last, until the next
\* call begins: when thread t begins or ends a call, the records of the calls
\* that ended before are dropped
EndCall(c, t) ==
    [u \in Threads |-> IF u # t /\ Finished(c[u]) THEN IdleCall ELSE c[u]]

\* a refresh that empties the cache before it calls STS
CacheOnFailure_Cleared(cache) == 0

\* refresh: an exception of the STS call leaves refresh before the
\* assignment of cls._cache
CacheOnFailure(cache) == cache

InitCred ==
    /\ _cache = 0
    /\ _expiration = 0
    /\ now = 0
    /\ ticks = 0
    /\ lastRefreshAt = 0
    /\ call = [t \in Threads |-> IdleCall]

\* the clock advances
Tick ==
    /\ ticks < MaxTicks
    /\ \E d \in TickSteps : now' = now + d
    /\ ticks' = ticks + 1
    /\ UNCHANGED <<_cache, _expiration, lastRefreshAt, call>>
    /\ UNCHANGED appVars

\* get_credentials: `not cls._cache or time.time() >= cls._expiration`
NeedsRefresh(cache, t, expiration) == cache = 0 \/ t >= expiration

\* an expiry marked without the buffer
MarkedExpiry_NoBuffer(t, duration) == t + duration

\* refresh: cls._expiration = time.time() + duration - 60
MarkedExpiry(t, duration) == t + duration - ExpiryBuffer

\* a thread enters CredentialStore.get_credentials()
GetCredentialsCall(t) ==
    /\ call[t].pc \in {"idle", "returned", "raised"}
    /\ call' = EndCall([call EXCEPT ![t] =
                          [IdleCall EXCEPT !.pc = "check",
                                           !.entryCache = _cache,
                                           !.entryExp = _expiration,
                                           !.afterRaise =
                                               (\E u \in Threads :
                                                  call[u].pc = "raised")]],
                       t)
    /\ UNCHANGED <<_cache, _expiration, now, ticks, lastRefreshAt>>
    /\ UNCHANGED appVars

\* the test of get_credentials; due and elapsed record what the clock and the
\* last completed refresh say at this moment
GetCredentialsCheck(t) ==
    /\ call[t].pc = "check"
    /\ call' = [call EXCEPT
                  ![t].pc = IF NeedsRefresh(_cache, now, _expiration)
                            THEN "refresh" ELSE "return",
                  ![t].due = (_cache = 0 \/
                              now >= lastRefreshAt + Duration - 60),
                  ![t].elapsed = now - lastRefreshAt]
    /\ UNCHANGED <<_cache, _expiration, now, ticks, lastRefreshAt>>
    /\ UNCHANGED appVars

\* refresh: sts.get_session_token(DurationSeconds=duration); a failure of the
\* call raises out of refresh and out of get_credentials
RefreshSts(t) ==
    /\ call[t].pc = "refresh"
    /\ \E ok \in BOOLEAN :
         IF ok
         THEN /\ call' = [call EXCEPT ![t].pc = "write_cache",
                                      ![t].attempts = @ + 1]
              /\ UNCHANGED _cache
         ELSE /\ call' = EndCall([call EXCEPT ![t].pc = "raised",
                                              ![t].attempts = @ + 1], t)
              /\ _cache' = CacheOnFailure(_cache)
    /\ UNCHANGED <<_expiration, now, ticks, lastRefreshAt>>
    /\ UNCHANGED appVars

\* refresh: cls._cache = {...}
RefreshWriteCache(t) ==
    /\ call[t].pc = "write_cache"
    /\ _cache' = 1
    /\ call' = [call EXCEPT ![t].pc = "write_expiration"]
    /\ UNCHANGED <<_expiration, now, ticks, lastRefreshAt>>
    /\ UNCHANGED appVars

\* refresh: cls._expiration = time.time() + duration - 60
RefreshWriteExpiration(t) ==
    /\ call[t].pc = "write_expiration"
    /\ _expiration' = MarkedExpiry(now, Duration)
    /\ lastRefreshAt' = now
    /\ call' = [call EXCEPT ![t].pc = "return"]
    /\ UNCHANGED <<_cache, now, ticks>>
    /\ UNCHANGED appVars

\* get_credentials: return cls._cache
GetCredentialsReturn(t) ==
    /\ call[t].pc = "return"
    /\ call' = EndCall([call EXCEPT ![t].pc = "returned",
                                    ![t].result = _cache], t)
    /\ UNCHANGED <<_cache, _expiration, now, ticks, lastRefreshAt>>
    /\ UNCHANGED appVars

InRefresh(t) == call[t].pc \in {"refresh", "write_cache", "write_expiration"}

Running(t) == call[t].pc \in {"check", "refresh", "write_cache",
                              "write_expiration", "return"}

CredStep(t) ==
    \/ GetCredentialsCall(t)
    \/ GetCredentialsCheck(t)
    \/ RefreshSts(t)
    \/ RefreshWriteCache(t)
    \/ RefreshWriteExpiration(t)
    \/ GetCredentialsReturn(t)

\* one caller at a time: a thread moves only while no other call is running
NextCredSeq ==
    \/ Tick
    \/ \E t \in Threads :
         /\ \A u \in Threads \ {t} : ~Running(u)
         /\ CredStep(t)

\* the worker threads of the server call get_credentials concurrently
NextCredConc ==
    \/ Tick
    \/ \E t \in Threads : CredStep(t)

(***************************************************************************)
(* Inputs of the requests.                                                 *)
(***************************************************************************)
\* rows a table may hold before another ingestion run is started
MaxRows == 3
\* largest top_k a request carries
MaxTopK == 2

\* the summary "1 2 3"
DocA == [title |-> "A", summary |-> <<1, Space, 2, Space, 3>>]
DocB == [title |-> "B", summary |-> <<>>]
DocC == [title |-> "C", summary |-> <<2>>]

\* what read_json_files(json_dir) may find
Corpora == {<<>>, <<DocA, DocB>>, <<DocC, DocA>>}

\* <<chunk_size, overlap>>
ChunkParams == {<<2, 1>>, <<2, 2>>}

Queries == {<<1>>, <<3>>}

TopKs == -1..MaxTopK

\* the providers the environment of a deployment names
EnvEmbeddingProviders == {"sentence-transformer", "openai"}
EnvLlmProviders == {"openai", "ollama"}

\* "" is the absent query parameter
EmbeddingOverrides == EmbeddingIds \cup {""}
LlmOverrides == LlmIds \cup {""}

\* no table papers in the storage
NoTable == [width |-> 0, rows |-> <<>>, serial |-> 0, builtBy |-> ""]

\* conn: the connection of rebuild_vector_db, "none", "open" or "closed";
\* lock: its session holds the lock DROP TABLE takes on papers; work: the
\* table as its transaction sees it; committed: conn.commit() has returned;
\* before: the committed table when the connection was opened; values: the
\* rows to insert
NoRebuild == [pc |-> "idle", dim |-> 0, detectedBy |-> "", embeddedBy |-> "",
              status |-> "", err |-> "",
              embedding_dimension |-> 0, embedding_provider |-> "",
              conn |-> "none", lock |-> FALSE, work |-> NoTable,
              committed |-> FALSE, before |-> NoTable, values |-> <<>>]

NoOut == [op |-> "none"]

\* <<temperature in tenths, max_tokens>>: what TEMPERATURE and MAX_TOKENS of
\* the environment may be, and what a /generate request may carry (0.7 and
\* 200 when it carries none)
EnvSamplings == {<<2, 512>>, <<7, 200>>}
RequestSamplings == {<<0, 200>>, <<7, 200>>, <<7, 300>>}
DefaultSampling == <<7, 200>>

\* st.session_state of a browser session whose script has not run yet
NoSession == [model_mode |-> "", llm_provider |-> "",
              embedding_provider |-> "", db_is_fresh |-> "",
              messages |-> 0]

\* ingestion/embeddings.py: model is loaded at import time when the
\* environment names the local provider, and is None otherwise
ModelLoaded == env_embedding_provider = "sentence-transformer"

\* generation_service.py: the module-level handle of the provider the
\* environment names is set at import time; ollama needs none
HandleReady(p) == p \notin HandleProviders \/ p = env_llm_provider

InitApp(envLlmProviders, envSamplings) ==
    /\ env_embedding_provider \in EnvEmbeddingProviders
    /\ env_llm_provider \in envLlmProviders
    /\ \E sampling \in envSamplings :
         /\ temperature = sampling[1]
         /\ max_tokens = sampling[2]
    /\ session_state = NoSession
    /\ embedding_provider = env_embedding_provider
    /\ llm_provider = env_llm_provider
    /\ papers = [width |-> DimOf[env_embedding_provider], rows |-> <<>>,
                 serial |-> 0, builtBy |-> ""]
    /\ rb = NoRebuild
    /\ gen = "idle"
    /\ out = NoOut

\* a deployment whose environment names openai as LLM provider
Init == InitCred /\ InitApp({"openai"}, {DefaultSampling})

\* the deployments the generation service is studied in
InitGen == InitCred /\ InitApp(EnvLlmProviders, EnvSamplings)

(***************************************************************************)
(* POST /rebuild: controllers/ingestion.py, services/ingestion_service.py  *)
(***************************************************************************)
\* rebuild_vector_store: the override of settings.embedding_provider
\* One rebuild is followed at a time, with its storage session: the next is
\* taken up when the connection of the one before is closed.
RebuildRequest ==
    /\ out = NoOut
    /\ rb.pc \in {"idle", "done"}
    /\ rb.conn # "open"
    /\ \E override \in EmbeddingOverrides :
         embedding_provider' = IF override # "" THEN override
                               ELSE embedding_provider
    /\ rb' = [NoRebuild EXCEPT !.pc = "detect"]
    /\ out' = NoOut
    /\ UNCHANGED <<session_state, temperature, max_tokens,
                   env_embedding_provider, env_llm_provider, llm_provider,
                   papers, gen>>
    /\ UNCHANGED credVars

\* detect_embedding_dim under provider p: "" or the error it raises
DetectError(p, up, credentialsOk) ==
    IF p \notin DetectProviders THEN "unsupported"
    ELSE IF p = "bedrock" /\ ~credentialsOk THEN "credential"
    ELSE IF ~up THEN "provider"
    ELSE ""

\* get_bedrock_client -> get_aws_credentials -> CredentialStore.get_credentials
\* run by one thread without interruption; stsOk: the STS call succeeds
GetCredentialsOf(p, stsOk) ==
    IF p = "bedrock" /\ NeedsRefresh(_cache, now, _expiration)
    THEN /\ IF stsOk
            THEN /\ _cache' = 1
                 /\ _expiration' = MarkedExpiry(now, Duration)
                 /\ lastRefreshAt' = now
            ELSE /\ _cache' = CacheOnFailure(_cache)
                 /\ UNCHANGED <<_expiration, lastRefreshAt>>
         /\ UNCHANGED <<now, ticks, call>>
    ELSE UNCHANGED credVars

\* rebuild_vector_db: dim = detect_embedding_dim(...).  The file that
\* write_pgvector_sql(dim) writes is read when a new database is set up and
\* by nothing in the server, and is left out.
RebuildDetect ==
    /\ out = NoOut
    /\ rb.pc = "detect"
    /\ \E up \in BOOLEAN, stsOk \in BOOLEAN :
         LET p == embedding_provider
             credentialsOk ==
                 ~NeedsRefresh(_cache, now, _expiration) \/ stsOk
             e == DetectError(p, up, credentialsOk)
         IN  /\ GetCredentialsOf(p, stsOk)
             /\ IF e = ""
                THEN rb' = [rb EXCEPT !.pc = "process", !.dim = DimOf[p],
                                      !.detectedBy = p]
                ELSE rb' = [NoRebuild EXCEPT !.pc = "done",
                                             !.status = "error", !.err = e]
    /\ out' = NoOut
    /\ UNCHANGED <<session_state, temperature, max_tokens,
                   env_embedding_provider, env_llm_provider,
                   embedding_provider, llm_provider, papers, gen>>

\* the papers of a corpus for whose requests the embedding backend fails:
\* none, one, or all
Outages(corpus) ==
    {{}} \cup {{i} : i \in 1..Len(corpus)} \cup {1..Len(corpus)}

\* rebuild_vector_db: read_json_files, process_papers, connect, DROP TABLE,
\* CREATE TABLE, execute_values, commit, close, save_processed_papers_to_file.
\* The statements run in one transaction of the connection, so the committed
\* table changes at the commit or not at all.  Nothing after process_papers
\* reads the settings or the committed table, so the steps from process_papers
\* on are taken as one.  saved: the file of processed papers can be written.
\* observe: out keeps the inputs and the outcome of the step.
rebuild_ingest(observe) ==
    /\ out = NoOut
    /\ rb.pc = "process"
    /\ \E corpus \in Corpora, cp \in ChunkParams,
          dbUp \in BOOLEAN, saved \in BOOLEAN :
         \E down \in Outages(corpus) :
         LET r == process_papers(corpus, cp[1], cp[2], embedding_provider,
                                 ModelLoaded, down)
             created == DropAndCreate(papers, rb.dim, rb.detectedBy)
             values == InsertValues(r.processed)
             e == IF r.err # "" THEN r.err
                  ELSE IF ~dbUp THEN "storage"
                  ELSE IF InsertRejected(created.width, values)
                  THEN "dimension"
                  ELSE IF ~saved THEN "save"
                  ELSE ""
         IN  /\ papers' = IF e \in {"", "save"}
                          THEN Inserted(created, values)
                          ELSE papers
             /\ rb' = IF e = ""
                      THEN [rb EXCEPT !.pc = "respond",
                                      !.embeddedBy = embedding_provider]
                      ELSE [NoRebuild EXCEPT !.pc = "done",
                                             !.status = "error",
                                             !.err = e]
             /\ out' = IF observe
                       THEN [op |-> "rebuild", corpus |-> corpus,
                             chunk_size |-> cp[1], overlap |-> cp[2],
                             provider |-> embedding_provider,
                             down |-> down, dbUp |-> dbUp, saved |-> saved,
                             raised |-> (e # ""), err |-> e,
                             before |-> papers.rows]
                       ELSE NoOut
    /\ UNCHANGED <<session_state, temperature, max_tokens,
                   env_embedding_provider, env_llm_provider,
                   embedding_provider, llm_provider, gen>>
    /\ UNCHANGED credVars

(***************************************************************************)
(* rebuild_vector_db from process_papers on, one statement at a time.      *)
(***************************************************************************)
\* a connection in autocommit mode: every statement is committed as it ends
StatementEffect_Autocommit(committed, work) == work

\* psycopg2 opens a transaction at the first cursor.execute and autocommit
\* is off: a statement changes what the session sees and leaves the
\* committed table as it is
StatementEffect(committed, work) == committed

\* the exception of a step after psycopg2.connect: `except Exception: print;
\* raise` closes nothing and rolls nothing back
Raised(r, e) == [r EXCEPT !.pc = "done", !.status = "error", !.err = e]

\* read_json_files and process_papers
RebuildProcess ==
    /\ out = NoOut
    /\ rb.pc = "process"
    /\ \E corpus \in Corpora, cp \in ChunkParams :
         \E down \in Outages(corpus) :
         LET r == process_papers(corpus, cp[1], cp[2], embedding_provider,
                                 ModelLoaded, down)
         IN  rb' = IF r.err # "" THEN Raised(rb, r.err)
                   ELSE [rb EXCEPT !.pc = "connect",
                                   !.embeddedBy = embedding_provider,
                                   !.values = InsertValues(r.processed)]
    /\ out' = NoOut
    /\ UNCHANGED <<session_state, temperature, max_tokens,
                   env_embedding_provider, env_llm_provider,
                   embedding_provider, llm_provider, papers, gen>>
    /\ UNCHANGED credVars

\* conn = psycopg2.connect(**db_config); cursor = conn.cursor()
RebuildConnect ==
    /\ out = NoOut
    /\ rb.pc = "connect"
    /\ \E dbUp \in BOOLEAN :
         rb' = IF dbUp
               THEN [rb EXCEPT !.pc = "drop", !.conn = "open",
                               !.work = papers, !.before = papers]
               ELSE Raised(rb, "storage")
    /\ out' = NoOut
    /\ UNCHANGED <<session_state, temperature, max_tokens,
                   env_embedding_provider, env_llm_provider,
                   embedding_provider, llm_provider, papers, gen>>
    /\ UNCHANGED credVars

\* a statement of the session: it ends with the table `work` in the
\* session's view and goes on at `next`, or fails with error e
Execute(ok, work, next, e) ==
    /\ out = NoOut
    /\ rb' = IF ok
             THEN [rb EXCEPT !.pc = next, !.lock = TRUE, !.work = work]
             ELSE Raised(rb, e)
    /\ papers' = IF ok THEN StatementEffect(papers, work) ELSE papers
    /\ out' = NoOut
    /\ UNCHANGED <<session_state, temperature, max_tokens,
                   env_embedding_provider, env_llm_provider,
                   embedding_provider, llm_provider, gen>>
    /\ UNCHANGED credVars

\* cursor.execute("DROP TABLE IF EXISTS papers;")
RebuildDrop ==
    /\ rb.pc = "drop"
    /\ \E ok \in BOOLEAN : Execute(ok, NoTable, "create", "storage")

\* cursor.execute("CREATE TABLE papers (... embedding vector(dim))")
RebuildCreate ==
    /\ rb.pc = "create"
    /\ \E ok \in BOOLEAN :
         Execute(ok, DropAndCreate(rb.work, rb.dim, rb.detectedBy), "insert",
                 "storage")

\* execute_values(cursor, insert_query, values)
RebuildInsert ==
    /\ rb.pc = "insert"
    /\ IF InsertRejected(rb.work.width, rb.values)
       THEN Execute(FALSE, rb.work, "commit", "dimension")
       ELSE \E ok \in BOOLEAN :
              Execute(ok, Inserted(rb.work, rb.values), "commit", "storage")

\* conn.commit()
RebuildCommit ==
    /\ out = NoOut
    /\ rb.pc = "commit"
    /\ \E ok \in BOOLEAN :
         /\ rb' = IF ok THEN [rb EXCEPT !.pc = "close", !.lock = FALSE,
                                        !.committed = TRUE]
                  ELSE Raised(rb, "storage")
         /\ papers' = IF ok THEN rb.work ELSE papers
    /\ out' = NoOut
    /\ UNCHANGED <<session_state, temperature, max_tokens,
                   env_embedding_provider, env_llm_provider,
                   embedding_provider, llm_provider, gen>>
    /\ UNCHANGED credVars

\* cursor.close(); conn.close()
RebuildClose ==
    /\ out = NoOut
    /\ rb.pc = "close"
    /\ rb' = [rb EXCEPT !.pc = "save", !.conn = "closed"]
    /\ out' = NoOut
    /\ UNCHANGED <<session_state, temperature, max_tokens,
                   env_embedding_provider, env_llm_provider,
                   embedding_provider, llm_provider, papers, gen>>
    /\ UNCHANGED credVars

\* save_processed_papers_to_file(processed, output_file)
RebuildSave ==
    /\ out = NoOut
    /\ rb.pc = "save"
    /\ \E saved \in BOOLEAN :
         rb' = IF saved THEN [rb EXCEPT !.pc = "respond"]
               ELSE Raised(rb, "save")
    /\ out' = NoOut
    /\ UNCHANGED <<session_state, temperature, max_tokens,
                   env_embedding_provider, env_llm_provider,
                   embedding_provider, llm_provider, papers, gen>>
    /\ UNCHANGED credVars

\* the connection object of a rebuild that raised is collected at some time
\* after the call: the connection is closed then, and the storage rolls the
\* open transaction back and releases its lock
ConnectionCollected ==
    /\ out = NoOut
    /\ rb.pc = "done"
    /\ rb.conn = "open"
    /\ rb' = [rb EXCEPT !.conn = "closed", !.lock = FALSE]
    /\ out' = NoOut
    /\ UNCHANGED <<session_state, temperature, max_tokens,
                   env_embedding_provider, env_llm_provider,
                   embedding_provider, llm_provider, papers, gen>>
    /\ UNCHANGED credVars

\* rebuild_vector_store: dim = detect_embedding_dim() and the response
RebuildRespond ==
    /\ out = NoOut
    /\ rb.pc = "respond"
    /\ \E up \in BOOLEAN, stsOk \in BOOLEAN :
         LET p == embedding_provider
             credentialsOk ==
                 ~NeedsRefresh(_cache, now, _expiration) \/ stsOk
             e == DetectError(p, up, credentialsOk)
         IN  /\ GetCredentialsOf(p, stsOk)
             /\ rb' = IF e = ""
                      THEN [rb EXCEPT !.pc = "done", !.status = "success",
                                      !.embedding_dimension = DimOf[p],
                                      !.embedding_provider = p]
                      ELSE [rb EXCEPT !.pc = "done", !.status = "error",
                                      !.err = e]
    /\ out' = NoOut
    /\ UNCHANGED <<session_state, temperature, max_tokens,
                   env_embedding_provider, env_llm_provider,
                   embedding_provider, llm_provider, papers,
                   gen>>

(***************************************************************************)
(* GET /generate: controllers/generation.py, services/retrieval_service.py *)
(* and services/generation_service.py                                      *)
(***************************************************************************)
\* the provider that embeds the query: get_embedding_model() returns
\* SentenceTransformer("all-MiniLM-L6-v2") whatever the settings say
QueryProvider(configured) == "sentence-transformer"

\* retrieve_top_k_chunks(query, top_k, db_config).  conn: the connection
\* when the call ends, "none" when get_db_connection raised, "closed" by the
\* finally clause otherwise; conn.cursor() of the connection just opened is
\* taken not to fail
retrieve_top_k_chunks(query, top_k, table, dbUp, scan) ==
    LET q == Embed(QueryProvider(embedding_provider), query)
    IN  IF ~dbUp
        THEN [status |-> "error", err |-> "storage", query_embedding |-> q,
              documents |-> <<>>, conn |-> "none"]
        ELSE IF QueryRejected(table, q, top_k)
        THEN [status |-> "error", err |-> "dimension", query_embedding |-> q,
              documents |-> <<>>, conn |-> "closed"]
        ELSE [status |-> "ok", err |-> "", query_embedding |-> q,
              documents |-> NearestNeighbours(table.rows, q, top_k, scan),
              conn |-> "closed"]

\* generate_response(query, chunks, max_tokens, temperature): the two
\* parameters are read nowhere in the body, and call_llm(prompt) is called
\* with the prompt alone
generate_response(llm, req_max_tokens, req_temperature) ==
    IF llm.raised
    THEN [raised |-> TRUE, keys |-> {}, response |-> ""]
    ELSE [raised |-> FALSE,
          keys |-> {"query", "context", "response",
                    "response_tokens_per_second"},
          response |-> llm.response]

\* generate: the overrides of settings.llm_provider and
\* settings.embedding_provider
generate_override(llmOverrides, embOverrides) ==
    /\ out = NoOut
    /\ gen = "idle"
    /\ \E llmOverride \in llmOverrides, embOverride \in embOverrides :
         /\ llm_provider' = IF llmOverride # "" THEN llmOverride
                            ELSE llm_provider
         /\ embedding_provider' = IF embOverride # "" THEN embOverride
                                  ELSE embedding_provider
    /\ gen' = "retrieve"
    /\ out' = NoOut
    /\ UNCHANGED <<session_state, temperature, max_tokens,
                   env_embedding_provider, env_llm_provider, papers, rb>>
    /\ UNCHANGED credVars

\* generate: the retrieval, the generation and the response.  The SELECT
\* waits while the session of a rebuild holds the lock of DROP TABLE.
generate_respond(replies, samplings) ==
    /\ out = NoOut
    /\ gen = "retrieve"
    /\ ~rb.lock
    /\ \E query \in Queries, top_k \in TopKs, dbUp \in BOOLEAN,
          reply \in replies, scan \in Scans(Len(papers.rows)),
          sampling \in samplings :
         LET r == retrieve_top_k_chunks(query, top_k, papers, dbUp, scan)
             llm == call_llm(llm_provider, HandleReady(llm_provider), reply)
             g == generate_response(llm, sampling[2], sampling[1])
             sent == SentSampling(llm_provider, temperature, max_tokens)
         IN  out' = IF r.status = "error"
                    THEN [op |-> "generate", http |-> 500, top_k |-> top_k,
                          retrieval |-> r]
                    ELSE IF g.raised \/ "response" \notin g.keys
                    THEN [op |-> "generate", http |-> 500, top_k |-> top_k,
                          retrieval |-> r, reply |-> reply, llm |-> llm,
                          temperature |-> sampling[1],
                          max_tokens |-> sampling[2], sent |-> sent]
                    ELSE [op |-> "generate", http |-> 200, top_k |-> top_k,
                          retrieval |-> r, reply |-> reply, llm |-> llm,
                          temperature |-> sampling[1],
                          max_tokens |-> sampling[2], sent |-> sent,
                          result |-> g]
    /\ gen' = "idle"
    /\ UNCHANGED <<session_state, temperature, max_tokens,
                   env_embedding_provider, env_llm_provider,
                   embedding_provider, llm_provider, papers, rb>>
    /\ UNCHANGED credVars

(***************************************************************************)
(* services/query_expansion_service.py                                     *)
(***************************************************************************)
\* expand_query(query): result = call_llm(prompt); the dict with
\* expanded_query = result["response"] when result is a dict with the key
\* "response", None otherwise.  Every dict call_llm returns has that key.
expand_query(llm) ==
    IF llm.raised
    THEN [raised |-> TRUE, result |-> "None", expanded_query |-> ""]
    ELSE [raised |-> FALSE, result |-> "dict",
          expanded_query |-> llm.response]

\* expand_query called under the configured LLM provider
ExpandQuery ==
    /\ out = NoOut
    /\ \E reply \in Replies :
         LET llm == call_llm(llm_provider, HandleReady(llm_provider), reply)
         IN  out' = [op |-> "expand_query", reply |-> reply, llm |-> llm,
                     expansion |-> expand_query(llm)]
    /\ UNCHANGED <<session_state, temperature, max_tokens,
                   env_embedding_provider, env_llm_provider,
                   embedding_provider, llm_provider, papers, rb, gen>>
    /\ UNCHANGED credVars

(***************************************************************************)
(* ingestion/pipeline.py run as a script, in a process of its own          *)
(***************************************************************************)
\* run_pipeline(json_dir): process_papers, whose errors are raised, then
\* insert_papers_to_pgvector, whose errors are printed and not raised.
\* observe: out keeps the inputs of the run
run_pipeline(observe) ==
    /\ out = NoOut
    /\ \E corpus \in Corpora, cp \in ChunkParams,
          dbUp \in BOOLEAN :
         \E down \in Outages(corpus) :
         LET r == process_papers(corpus, cp[1], cp[2], env_embedding_provider,
                                 ModelLoaded, down)
             ins == insert_papers_to_pgvector(r.processed, papers, dbUp)
             seen == IF observe
                     THEN [corpus |-> corpus, chunk_size |-> cp[1],
                           overlap |-> cp[2],
                           provider |-> env_embedding_provider,
                           down |-> down, dbUp |-> dbUp]
                     ELSE <<>>
         IN  /\ Len(papers.rows) + Len(InsertValues(r.processed)) <= MaxRows
             /\ IF r.err # ""
                THEN /\ out' = [op |-> "pipeline", raised |-> TRUE,
                                err |-> r.err, inserted |-> 0,
                                seen |-> seen]
                     /\ UNCHANGED papers
                ELSE /\ out' = [op |-> "pipeline", raised |-> FALSE,
                                err |-> ins.err,
                                inserted |-> Len(ins.table.rows)
                                             - Len(papers.rows),
                                seen |-> seen]
                     /\ papers' = ins.table
    /\ UNCHANGED <<session_state, temperature, max_tokens,
                   env_embedding_provider, env_llm_provider,
                   embedding_provider, llm_provider, rb, gen>>
    /\ UNCHANGED credVars

\* the entry of index i without its last embedding; i = 0 leaves the data as
\* they are
Damaged(data, i) ==
    [k \in 1..Len(data) |->
       IF k = i /\ data[k].embeddings # <<>>
       THEN [data[k] EXCEPT
               !.embeddings = SubSeq(@, 1, Len(@) - 1)]
       ELSE data[k]]

\* insert_papers_to_pgvector(data, db_config) called with processed papers
\* that were saved before, whole or with an embedding missing
InsertPapers ==
    /\ out = NoOut
    /\ \E corpus \in Corpora, cp \in ChunkParams, dbUp \in BOOLEAN :
         \E i \in 0..Len(corpus) :
         LET r == process_papers(corpus, cp[1], cp[2], env_embedding_provider,
                                 ModelLoaded, {})
             data == Damaged(r.processed, i)
             ins == insert_papers_to_pgvector(data, papers, dbUp)
         IN  /\ r.err = ""
             /\ Len(papers.rows) + Len(InsertValues(data)) <= MaxRows
             /\ out' = [op |-> "insert", data |-> data, dbUp |-> dbUp,
                        raised |-> (ins.err # ""), err |-> ins.err,
                        before |-> papers.rows]
             /\ papers' = ins.table
    /\ UNCHANGED <<session_state, temperature, max_tokens,
                   env_embedding_provider, env_llm_provider,
                   embedding_provider, llm_provider, rb, gen>>
    /\ UNCHANGED credVars

\* out is what a request or run hands to its caller when it ends, and no
\* part of the state of the server or of the storage: the caller takes it
\* before the next step of any request is looked at
Returned ==
    /\ out # NoOut
    /\ out' = NoOut
    /\ UNCHANGED <<session_state, temperature, max_tokens,
                   env_embedding_provider, env_llm_provider,
                   embedding_provider, llm_provider, papers, rb, gen>>
    /\ UNCHANGED credVars

RebuildIngest == rebuild_ingest(FALSE)
RebuildIngestObserved == rebuild_ingest(TRUE)

RunPipeline == run_pipeline(FALSE)
RunPipelineObserved == run_pipeline(TRUE)

\* requests that leave the LLM provider alone and whose LLM backend answers
GenerateOverride == generate_override({""}, EmbeddingOverrides)
GenerateRespond == generate_respond({"ok"}, {DefaultSampling})

\* requests that leave the embedding provider alone
GenerateLlmOverride == generate_override(LlmOverrides, {""})
GenerateLlmRespond == generate_respond(Replies, RequestSamplings)

(***************************************************************************)
(* client/streamlit_app.py: one browser session.  Streamlit runs the       *)
(* script from the top at every interaction; a run is taken as one step.   *)
(***************************************************************************)
\* messages the chat history may hold before another query is typed
MaxMessages == 4

\* the options of the selectbox "Model Configuration", the first the default
Modes == <<"OpenAI + SentenceTransformer", "OpenAI (Embedding + LLM)",
           "Bedrock", "Cohere", "Ollama", "Google PaLM">>

\* provider_map[model_mode] = <<llm, emb>>
provider_map ==
    [mode \in {Modes[i] : i \in 1..Len(Modes)} |->
       CASE mode = "OpenAI + SentenceTransformer"
                 -> <<"openai", "sentence-transformer">>
         [] mode = "OpenAI (Embedding + LLM)" -> <<"openai", "openai">>
         [] mode = "Bedrock" -> <<"bedrock", "bedrock">>
         [] mode = "Cohere" -> <<"cohere", "cohere">>
         [] mode = "Ollama" -> <<"ollama", "sentence-transformer">>
         [] mode = "Google PaLM" -> <<"google", "google">>]

\* what the client may get for its POST /rebuild: the body of a success, the
\* body {"detail": ...} of an HTTP 500, another JSON body, or an exception
\* of requests.post or response.json()
RebuildResults == {"success", "detail", "other", "exception"}

\* a client that takes every answered rebuild for a success
RebuildSucceeded_Answered(result) == result # "exception"

\* display_sidebar: result.get("status") == "success"
RebuildSucceeded(result) == result = "success"

\* display_sidebar up to the button of the rebuild, with the selectbox at
\* model_mode; "" is a key that is not in st.session_state
display_sidebar(ss, model_mode) ==
    LET llm == provider_map[model_mode][1]
        emb == provider_map[model_mode][2]
        changed == \/ ss.llm_provider # "" /\ ss.llm_provider # llm
                   \/ ss.embedding_provider # ""
                      /\ ss.embedding_provider # emb
        fresh == IF changed THEN "False" ELSE ss.db_is_fresh
    IN  [ss EXCEPT !.model_mode = model_mode,
                   !.llm_provider = llm,
                   !.embedding_provider = emb,
                   !.db_is_fresh = IF fresh = "" THEN "True" ELSE fresh]

\* the first run of the script in a session
ClientLoad ==
    /\ out = NoOut
    /\ session_state = NoSession
    /\ session_state' = display_sidebar(session_state, Modes[1])
    /\ out' = NoOut
    /\ UNCHANGED <<temperature, max_tokens, env_embedding_provider,
                   env_llm_provider, embedding_provider, llm_provider,
                   papers, rb, gen>>
    /\ UNCHANGED credVars

\* the user picks another option of the selectbox
ClientSelect ==
    /\ out = NoOut
    /\ session_state # NoSession
    /\ \E i \in 1..Len(Modes) :
         /\ Modes[i] # session_state.model_mode
         /\ session_state' = display_sidebar(session_state, Modes[i])
    /\ out' = NoOut
    /\ UNCHANGED <<temperature, max_tokens, env_embedding_provider,
                   env_llm_provider, embedding_provider, llm_provider,
                   papers, rb, gen>>
    /\ UNCHANGED credVars

\* the user clicks "Rebuild Vector DB": POST /rebuild with the embedding
\* provider of the session, and what the client makes of the answer
ClientRebuild ==
    /\ out = NoOut
    /\ session_state # NoSession
    /\ \E result \in RebuildResults :
         LET ss == display_sidebar(session_state, session_state.model_mode)
         IN  /\ session_state' =
                    IF RebuildSucceeded(result)
                    THEN [ss EXCEPT !.db_is_fresh = "True"]
                    ELSE ss
             /\ out' = [op |-> "client_rebuild",
                        embedding_provider |-> ss.embedding_provider,
                        result |-> result]
    /\ UNCHANGED <<temperature, max_tokens, env_embedding_provider,
                   env_llm_provider, embedding_provider, llm_provider,
                   papers, rb, gen>>
    /\ UNCHANGED credVars

\* the user clicks "Clear Chat History"
ClientClear ==
    /\ out = NoOut
    /\ session_state # NoSession
    /\ session_state.messages > 0
    /\ session_state' =
           [display_sidebar(session_state, session_state.model_mode)
              EXCEPT !.messages = 0]
    /\ out' = NoOut
    /\ UNCHANGED <<temperature, max_tokens, env_embedding_provider,
                   env_llm_provider, embedding_provider, llm_provider,
                   papers, rb, gen>>
    /\ UNCHANGED credVars

\* main: a run with a question typed.  The chat input is disabled and read
\* for no query unless st.session_state.get("db_is_fresh", False); else
\* query_fastapi sends the query with the providers of the session, and the
\* question and the answer are appended to the messages
ClientQuery ==
    /\ out = NoOut
    /\ session_state # NoSession
    /\ session_state.messages < MaxMessages
    /\ LET ss == display_sidebar(session_state, session_state.model_mode)
       IN  IF ss.db_is_fresh = "True"
           THEN /\ session_state' = [ss EXCEPT !.messages = @ + 2]
                /\ out' = [op |-> "client_query", sent |-> TRUE,
                           llm_provider |-> ss.llm_provider,
                           embedding_provider |-> ss.embedding_provider]
           ELSE /\ session_state' = ss
                /\ out' = [op |-> "client_query", sent |-> FALSE,
                           llm_provider |-> "", embedding_provider |-> ""]
    /\ UNCHANGED <<temperature, max_tokens, env_embedding_provider,
                   env_llm_provider, embedding_provider, llm_provider,
                   papers, rb, gen>>
    /\ UNCHANGED credVars

(***************************************************************************)
(* The chunker and the embedding dispatcher on their own.                  *)
(***************************************************************************)
\* longest text, in characters
MaxTextLen == 5
\* largest max_length and overlap
MaxLength == 3
\* longest list of chunks
MaxChunks == 3

Chars == {Space, 1, 2}

Texts == UNION {[1..n -> Chars] : n \in 0..MaxTextLen}

\* chunk_size and overlap come as integers of a query string
MaxLengths == -1..MaxLength
Overlaps == -2..MaxLength

ChunkLists == UNION {[1..n -> {<<1>>, <<2>>, <<1, Space, 2>>}] :
                       n \in 0..MaxChunks}

\* chunk_text(text, max_length, overlap), a pure function, applied once
ChunkText ==
    /\ out = NoOut
    /\ \E text \in Texts, max_length \in MaxLengths, overlap \in Overlaps :
         LET c == chunk_text(text, max_length, overlap)
         IN  out' = [op |-> "chunk_text", text |-> text,
                     max_length |-> max_length, overlap |-> overlap,
                     ok |-> c.ok, chunks |-> c.chunks]
    /\ UNCHANGED <<session_state, temperature, max_tokens,
                   env_embedding_provider, env_llm_provider,
                   embedding_provider, llm_provider, papers, rb, gen>>
    /\ UNCHANGED credVars

\* generate_embeddings(text_chunks), applied once
GenerateEmbeddings ==
    /\ out = NoOut
    /\ \E text_chunks \in ChunkLists, p \in EmbeddingIds, up \in BOOLEAN :
         LET e == generate_embeddings(p, ModelLoaded, up, text_chunks)
         IN  out' = [op |-> "generate_embeddings", provider |-> p,
                     text_chunks |-> text_chunks, up |-> up,
                     err |-> e.err, calls |-> e.calls,
                     embeddings |-> e.embeddings]
    /\ UNCHANGED <<session_state, temperature, max_tokens,
                   env_embedding_provider, env_llm_provider,
                   embedding_provider, llm_provider, papers, rb, gen>>
    /\ UNCHANGED credVars

Next ==
    \/ RebuildRequest
    \/ RebuildDetect
    \/ RebuildIngest
    \/ RebuildRespond
    \/ GenerateOverride
    \/ GenerateRespond
    \/ RunPipeline
    \/ Returned

Spec == Init /\ [][Next]_vars

NextGen ==
    \/ GenerateLlmOverride
    \/ GenerateLlmRespond
    \/ ExpandQuery
    \/ Returned

SpecGen == InitGen /\ [][NextGen]_vars

\* the ingestion runs alone, their inputs kept
NextIngest ==
    \/ RebuildRequest
    \/ RebuildDetect
    \/ RebuildIngestObserved
    \/ RebuildRespond
    \/ RunPipelineObserved
    \/ InsertPapers
    \/ Returned

SpecIngest == Init /\ [][NextIngest]_vars

\* the chunker and the embedding dispatcher applied to their inputs
NextText ==
    \/ ChunkText
    \/ GenerateEmbeddings

SpecText == Init /\ [][NextText]_vars

\* a request that carries no override
GeneratePlain == generate_override({""}, {""})

\* the rebuild statement by statement, next to retrievals
NextStorage ==
    \/ RebuildRequest
    \/ RebuildDetect
    \/ RebuildProcess
    \/ RebuildConnect
    \/ RebuildDrop
    \/ RebuildCreate
    \/ RebuildInsert
    \/ RebuildCommit
    \/ RebuildClose
    \/ RebuildSave
    \/ RebuildRespond
    \/ ConnectionCollected
    \/ GeneratePlain
    \/ GenerateRespond
    \/ Returned

SpecStorage == Init /\ [][NextStorage]_vars

\* the chat client on its own
NextClient ==
    \/ ClientLoad
    \/ ClientSelect
    \/ ClientRebuild
    \/ ClientClear
    \/ ClientQuery
    \/ Returned

SpecClient == Init /\ [][NextClient]_vars

SpecCredSeq == Init /\ [][NextCredSeq]_vars

SpecCredConc == Init /\ [][NextCredConc]_vars

(***************************************************************************)
(* Properties.                                                             *)
(***************************************************************************)
Retrieved == out.op = "generate" /\ out.retrieval.status = "ok"

Documents == out.retrieval.documents

\* the stored row a returned document was made from
RowOf(doc) == CHOOSE i \in 1..Len(papers.rows) : papers.rows[i].id = doc.id

\* C1 (as claimed): invariant I1, whenever no request is in progress the
\* declared width of the papers.embedding column equals the vector length of
\* the currently configured embedding provider.
CE_C1 ==
    (rb.pc \in {"idle", "done"} /\ gen = "idle")
    => papers.width = DimOf[embedding_provider]

\* C2 (as claimed): a retrieval that follows a successful rebuild under the
\* configured provider P embeds the query with P, and the query vector is as
\* long as the stored vectors are wide.
CE_C2 ==
    (out.op = "generate" /\ out.retrieval.err # "storage"
       /\ papers.builtBy # "" /\ papers.builtBy = embedding_provider)
    => /\ out.retrieval.query_embedding.by = embedding_provider
       /\ out.retrieval.query_embedding.len = papers.width

\* C3: the step of a rebuild that commits the table leaves a table whose
\* column has the detected dimension dim and whose rows all have an embedding
\* of length dim; a rebuild whose insert is rejected for a vector of another
\* length stores nothing.
Thm_C3 ==
    [][/\ (rb.pc = "process" /\ rb'.pc = "respond")
          => /\ papers'.width = rb.dim
             /\ rb'.dim = rb.dim
             /\ \A i \in 1..Len(papers'.rows) :
                  papers'.rows[i].embedding.len = rb.dim
       /\ (rb.pc = "process" /\ rb'.pc = "done" /\ rb'.err = "dimension")
          => papers' = papers]_vars

\* a rebuild has stored rows embedded by another provider than the one the
\* dimension was detected with
W_C3 ==
    /\ rb.pc = "respond"
    /\ rb.embeddedBy # rb.detectedBy
    /\ papers.builtBy = rb.detectedBy
    /\ papers.rows # <<>>
    /\ \A i \in 1..Len(papers.rows) :
         /\ papers.rows[i].embedding.by = rb.embeddedBy
         /\ papers.rows[i].embedding.len = rb.dim

Thm_C5 ==
    Retrieved
    => LET q == out.retrieval.query_embedding
           returned == {Documents[i].id : i \in 1..Len(Documents)}
       IN  /\ Len(Documents) = Min(out.top_k, Len(papers.rows))
           /\ \A i, j \in 1..Len(Documents) :
                i < j => /\ Documents[i].similarity_score
                              <= Documents[j].similarity_score
                         /\ Documents[i].id # Documents[j].id
           /\ \A i \in 1..Len(Documents) :
                /\ \E k \in 1..Len(papers.rows) :
                     papers.rows[k].id = Documents[i].id
                /\ Documents[i].similarity_score =
                       Distance(papers.rows[RowOf(Documents[i])].embedding, q)
           /\ \A k \in 1..Len(papers.rows) :
                papers.rows[k].id \notin returned
                => \A i \in 1..Len(Documents) :
                     Distance(papers.rows[k].embedding, q)
                         >= Documents[i].similarity_score

\* a retrieval has returned two documents of different distance in another
\* order than the one they are stored in, and has left a row out
W_C5 ==
    /\ Retrieved
    /\ Len(Documents) = 2
    /\ Len(papers.rows) > 2
    /\ Documents[1].similarity_score < Documents[2].similarity_score
    /\ Documents[1].id > Documents[2].id

\* C6 (as claimed): call_llm never raises, and for every provider and every
\* failure of the backend its response is an error string, so that the
\* request ends with a dict of query, context and response.
CE_C6 ==
    (Retrieved /\ out.reply # "ok")
    => /\ ~out.llm.raised
       /\ out.llm.response = "error"
       /\ out.http = 200
       /\ {"query", "context", "response"} \subseteq out.result.keys

\* C7 (as claimed): a dispatch with an unsupported provider identifier fails
\* with an error that reaches the caller as an error, not as a normal result,
\* and calls no backend.
CE_C7 ==
    (Retrieved /\ llm_provider \notin LlmProviders)
    => /\ out.http = 500
       /\ out.llm.calls = 0

\* C8: with one caller at a time, a get_credentials call that has ended has
\* called STS once if the cache was empty or the clock was at or past the
\* time of the last refresh + duration - 60, and not at all otherwise: once
\* when 3601 s have passed since the last refresh, not at all when 10 s have.
Thm_C8 ==
    \A t \in Threads :
      Finished(call[t])
      => /\ call[t].attempts = IF call[t].due THEN 1 ELSE 0
         /\ (call[t].entryCache # 0 /\ call[t].elapsed = 3601)
            => call[t].attempts = 1
         /\ (call[t].entryCache # 0 /\ call[t].elapsed = 10)
            => call[t].attempts = 0

\* a call made 3601 s after the last refresh has refreshed once and returned
W_C8 ==
    \E t \in Threads :
      /\ call[t].pc = "returned"
      /\ call[t].entryCache # 0
      /\ call[t].elapsed = 3601
      /\ call[t].attempts = 1
      /\ _expiration = now + Duration - 60

\* C9 (as claimed): at most one get_credentials call is inside refresh at any
\* time.
CE_C9 == Cardinality({t \in Threads : InRefresh(t)}) <= 1

\* C10: with one caller at a time, a call whose STS call failed has raised
\* after one attempt and has left the cached credential and its expiry as they
\* were when it began; the call that follows a call that raised calls STS.
Thm_C10 ==
    \A t \in Threads :
      /\ call[t].pc = "raised"
         => /\ call[t].attempts = 1
            /\ _cache = call[t].entryCache
            /\ _expiration = call[t].entryExp
      /\ (Finished(call[t]) /\ call[t].afterRaise)
         => call[t].attempts = 1

\* a refresh of an expired credential has failed, and the call after it has
\* failed again
W_C10 ==
    \E t \in Threads :
      /\ call[t].pc = "raised"
      /\ call[t].afterRaise
      /\ call[t].entryCache # 0
      /\ _cache # 0

(***************************************************************************)
(* The chunker and the embedding dispatcher.                               *)
(***************************************************************************)
Chunked == out.op = "chunk_text"

\* the smallest number of steps of length b that reach a, for b > 0
CeilDiv(a, b) == (a + b - 1) \div b

\* the words of positions a (from 0) up to b, joined by single spaces
Window(words, a, b) == join(SubSeq(words, a + 1, b))

\* C11: chunk_text raises its ValueError and returns no chunks whenever
\* overlap >= max_length, whatever the text, the empty text included.
Thm_C11 ==
    (Chunked /\ out.overlap >= out.max_length)
    => /\ ~out.ok
       /\ out.chunks = <<>>

\* chunk_text has raised for the empty text
W_C11 ==
    /\ Chunked
    /\ out.text = <<>>
    /\ out.overlap >= out.max_length
    /\ ~out.ok

\* C12 (as claimed): for a text of n words and overlap < max_length,
\* chunk_text returns ceil(n / (max_length - overlap)) chunks, and the chunk
\* of index i (from 0) is the words from position i * (max_length - overlap)
\* up to min(i * (max_length - overlap) + max_length, n), joined by single
\* spaces.
CE_C12 ==
    (Chunked /\ out.overlap < out.max_length)
    => LET words == split(out.text)
           n == Len(words)
           step == out.max_length - out.overlap
       IN  /\ out.ok
           /\ Len(out.chunks) = CeilDiv(n, step)
           /\ \A i \in 0..(Len(out.chunks) - 1) :
                out.chunks[i + 1] =
                    Window(words, i * step,
                           Min(i * step + out.max_length, n))

\* C13 (as claimed): for overlap < max_length every word position of the text
\* lies in the window of one of the returned chunks.
CE_C13 ==
    (Chunked /\ out.overlap < out.max_length)
    => LET words == split(out.text)
           n == Len(words)
           step == out.max_length - out.overlap
       IN  /\ out.ok
           /\ \A k \in 1..n :
                \E i \in 0..(Len(out.chunks) - 1) :
                  LET a == i * step
                      b == Min(a + out.max_length, n)
                  IN  /\ a < k
                      /\ k <= b
                      /\ out.chunks[i + 1] = Window(words, a, b)

\* C14 (as claimed): for overlap < max_length, a non-empty text with fewer
\* words than max_length gives exactly one chunk, which holds all words of the
\* text, and the empty text gives the empty sequence.  Checked for the texts
\* that have a word.
CE_C14 ==
    (Chunked /\ out.overlap < out.max_length)
    => LET words == split(out.text)
       IN  /\ (words # <<>> /\ Len(words) < out.max_length)
              => /\ Len(out.chunks) = 1
                 /\ split(out.chunks[1]) = words
           /\ out.text = <<>> => out.chunks = <<>>

\* C15: a call of generate_embeddings that returns returns as many embeddings
\* as it was given chunks, the embedding of index i being the one of the
\* chunk of index i under the configured provider; a remote provider has
\* been sent one request per chunk; and the call returns for every remote
\* provider whose backend answers and for the loaded local model.
Thm_C15 ==
    out.op = "generate_embeddings"
    => /\ out.err = ""
          => /\ Len(out.embeddings) = Len(out.text_chunks)
             /\ \A i \in 1..Len(out.text_chunks) :
                  /\ out.embeddings[i].by = out.provider
                  /\ out.embeddings[i].len = DimOf[out.provider]
                  /\ out.embeddings[i].val = Val(out.text_chunks[i])
             /\ out.provider \in RemoteEmbedProviders
                => out.calls = Len(out.text_chunks)
       /\ (out.provider \in RemoteEmbedProviders /\ out.up) => out.err = ""
       /\ (out.provider = "sentence-transformer" /\ ModelLoaded)
          => out.err = ""

\* a remote provider has embedded three chunks, the first and the last of
\* which have different embeddings
W_C15 ==
    /\ out.op = "generate_embeddings"
    /\ out.err = ""
    /\ out.provider = "cohere"
    /\ Len(out.text_chunks) = 3
    /\ out.calls = 3
    /\ out.embeddings[1].val # out.embeddings[3].val

(***************************************************************************)
(* Ingestion runs.                                                         *)
(***************************************************************************)
\* an ingestion run that has just ended, its inputs kept
IngestionRun == out.op \in {"rebuild", "pipeline"}

RunInputs == IF out.op = "rebuild" THEN out ELSE out.seen

\* the chunks chunk_text makes of the paper of index i of the run
ChunksOf(i) ==
    chunk_text(RunInputs.corpus[i].summary, RunInputs.chunk_size,
               RunInputs.overlap).chunks

RECURSIVE SumChunks(_)
SumChunks(indexes) ==
    IF indexes = {} THEN 0
    ELSE LET i == CHOOSE j \in indexes : TRUE
         IN  Len(ChunksOf(i)) + SumChunks(indexes \ {i})

\* the rows the run has added to the table
RowsOfRun ==
    IF out.op = "rebuild" THEN papers.rows
    ELSE SubSeq(papers.rows, Len(papers.rows) - out.inserted + 1,
                Len(papers.rows))

RowsTitled(title) ==
    Cardinality({k \in 1..Len(RowsOfRun) : RowsOfRun[k].title = title})

\* nothing but the papers of the set `but` stands in the way of the run: the
\* chunk parameters are valid, the provider has a branch in
\* generate_embeddings and its model is loaded, the backend answers for the
\* other papers, the storage is up and its column has the width of the
\* provider's vectors, and the file a rebuild saves can be written
RunCanSucceedBut(but) ==
    /\ RunInputs.overlap < RunInputs.chunk_size
    /\ \/ RunInputs.provider \in RemoteEmbedProviders
       \/ RunInputs.provider = "sentence-transformer" /\ ModelLoaded
    /\ RunInputs.down \subseteq but
    /\ RunInputs.dbUp
    /\ out.op = "pipeline" => papers.width = DimOf[RunInputs.provider]
    /\ out.op = "rebuild" => RunInputs.saved

\* the papers of the run whose summary has no word
EmptyPapers ==
    {i \in 1..Len(RunInputs.corpus) :
       split(RunInputs.corpus[i].summary) = <<>>}

\* C16: an ingestion run over a batch with a paper of empty summary, with
\* nothing else in its way, does not raise, stores no row for that paper and
\* stores as many rows as the other papers have chunks; a backend that is
\* down for the empty paper alone changes nothing.
Thm_C16 ==
    (IngestionRun /\ EmptyPapers # {} /\ RunCanSucceedBut(EmptyPapers))
    => /\ ~out.raised
       /\ out.err = ""
       /\ \A i \in EmptyPapers : RowsTitled(RunInputs.corpus[i].title) = 0
       /\ Len(RowsOfRun) =
              SumChunks((1..Len(RunInputs.corpus)) \ EmptyPapers)

\* a rebuild over the papers A and B, B of empty summary, has stored the
\* three chunks of A
W_C16 ==
    /\ out.op = "rebuild"
    /\ out.corpus = <<DocA, DocB>>
    /\ out.down = {2}
    /\ ~out.raised
    /\ Len(papers.rows) = 3
    /\ \A k \in 1..3 : papers.rows[k].title = "A"

\* C17 (as claimed): when the embedding call fails for one paper of a run
\* with nothing else in its way, the run does not raise and stores the rows
\* of every other paper.
CE_C17 ==
    (/\ IngestionRun
     /\ \E i \in 1..Len(RunInputs.corpus) :
          /\ RunInputs.down = {i}
          /\ ChunksOf(i) # <<>>
     /\ RunCanSucceedBut(RunInputs.down))
    => /\ ~out.raised
       /\ \A j \in (1..Len(RunInputs.corpus)) \ RunInputs.down :
            RowsTitled(RunInputs.corpus[j].title) = Len(ChunksOf(j))

\* the entries of the data of an insert whose counts differ
Mismatched ==
    {i \in 1..Len(out.data) :
       Len(out.data[i].chunks) # Len(out.data[i].embeddings)}

\* C18 (as claimed): an insert of processed papers one of which has another
\* number of embeddings than of chunks does not abort, stores no row of that
\* paper and stores the rows of the other papers.
CE_C18 ==
    (/\ out.op = "insert"
     /\ Mismatched # {}
     /\ out.dbUp
     /\ papers.width = DimOf[env_embedding_provider])
    => /\ ~out.raised
       /\ \A i \in 1..Len(out.data) :
            Cardinality({k \in (Len(out.before) + 1)..Len(papers.rows) :
                           papers.rows[k].title = out.data[i].title})
                = IF i \in Mismatched THEN 0 ELSE Len(out.data[i].chunks)

\* C19 (as claimed): a rejection by the storage of a vector of another length
\* than the column is wide ends the rebuild, the pipeline run or the
\* retrieval it happens in with an error for its caller.
CE_C19 ==
    /\ (rb.pc = "done" /\ rb.err = "dimension") => rb.status = "error"
    /\ (out.op = "generate" /\ out.retrieval.err = "dimension")
       => out.http = 500
    /\ (out.op = "pipeline" /\ out.err = "dimension") => out.raised

\* C20 (as claimed): a step that writes rows into the table belongs to a run
\* that has detected the dimension of the configured provider before, and
\* creates the table with that dimension before it inserts.
CE_C20 ==
    [][(papers'.rows # papers.rows /\ papers'.rows # <<>>)
       => /\ rb.pc = "process"
          /\ rb'.pc = "respond"
          /\ rb.detectedBy = embedding_provider
          /\ papers'.width = DimOf[rb.detectedBy]]_vars

(***************************************************************************)
(* Re-provisioning.                                                        *)
(***************************************************************************)
\* C21: after a rebuild that has not raised, the table holds for every paper
\* of that rebuild one row per chunk of the paper, made of the paper's
\* title, the chunk and its embedding, and nothing else: the ids run
\* from 1 and there are as many rows as the papers have chunks, whatever the
\* table held before.
Thm_C21 ==
    (out.op = "rebuild" /\ ~out.raised)
    => /\ Len(papers.rows) = SumChunks(1..Len(out.corpus))
       /\ \A i \in 1..Len(out.corpus) :
            RowsTitled(out.corpus[i].title) = Len(ChunksOf(i))
       /\ \A k \in 1..Len(papers.rows) :
            /\ papers.rows[k].id = k
            /\ \E i \in 1..Len(out.corpus) :
                 /\ papers.rows[k].title = out.corpus[i].title
                 /\ \E c \in 1..Len(ChunksOf(i)) :
                      /\ papers.rows[k].chunk = ChunksOf(i)[c]
                      /\ papers.rows[k].embedding =
                             Embed(out.provider, ChunksOf(i)[c])

\* a rebuild over the papers A and B has replaced a table that held a row of
\* the paper C
W_C21 ==
    /\ out.op = "rebuild"
    /\ ~out.raised
    /\ out.corpus = <<DocA, DocB>>
    /\ \E k \in 1..Len(out.before) : out.before[k].title = "C"
    /\ Len(papers.rows) = 3
    /\ \A k \in 1..Len(papers.rows) : papers.rows[k].title = "A"

(***************************************************************************)
(* The generation service and its callers.                                 *)
(***************************************************************************)
\* C22 (as claimed): the temperature and the max_tokens a /generate request
\* hands to generate_response are the ones of the request call_llm sends to
\* the backend, temperature 0 included.
CE_C22 ==
    (out.op = "generate" /\ out.retrieval.status = "ok" /\ out.llm.calls = 1)
    => /\ out.sent.temperature = out.temperature
       /\ out.sent.max_tokens = out.max_tokens

\* C23 (as claimed): the provider an override selects is used for its
\* request only: when no request is in progress, the LLM provider and the
\* embedding provider of the settings are the ones the server was configured
\* with, so that a request without override runs with these.
CE_C23 ==
    (gen = "idle" /\ rb.pc \in {"idle", "done"})
    => /\ llm_provider = env_llm_provider
       /\ embedding_provider = env_embedding_provider

\* C24 (as claimed): for every provider selected when call_llm runs, one
\* selected by an override after the start of the process included, the
\* handle of that provider exists once call_llm has run, and the call has
\* gone to the backend through it.
CE_C24 ==
    (out.op = "generate" /\ out.retrieval.status = "ok"
       /\ llm_provider \in HandleProviders)
    => /\ HandleReady(llm_provider)
       /\ llm_provider \in {"openai", "bedrock", "huggingface", "azure"}
          => out.llm.calls = 1

(***************************************************************************)
(* The storage session of a rebuild.                                       *)
(***************************************************************************)
\* the committed table holds the rows of the rebuild, all of them, in a
\* column of the detected width
CompletedRebuild ==
    /\ papers.width = rb.dim
    /\ Len(papers.rows) = Len(rb.values)
    /\ \A k \in 1..Len(papers.rows) :
         /\ papers.rows[k].id = k
         /\ papers.rows[k].title = rb.values[k].title
         /\ papers.rows[k].chunk = rb.values[k].chunk
         /\ papers.rows[k].embedding = rb.values[k].embedding

\* C25: from the moment a rebuild has opened its connection, whatever
\* statement it is at and whatever step it has failed at, the committed
\* table is the table from before the rebuild or the complete table of the
\* rebuild: the former as long as conn.commit() has not returned, the latter
\* from then on; and the documents of a retrieval are rows of that table.
Thm_C25 ==
    /\ rb.conn # "none"
       => /\ papers = rb.before \/ CompletedRebuild
          /\ ~rb.committed => papers = rb.before
          /\ rb.committed => CompletedRebuild
    /\ (Retrieved /\ rb.conn # "none")
       => \A i \in 1..Len(Documents) :
            \E k \in 1..Len(papers.rows) :
              /\ papers.rows[k].id = Documents[i].id
              /\ papers.rows[k].title = Documents[i].title
              /\ papers.rows[k].chunk = Documents[i].chunk

\* a rebuild has failed at its insert, after DROP TABLE and CREATE TABLE,
\* and the committed table holds the rows from before
W_C25 ==
    /\ rb.pc = "done"
    /\ rb.status = "error"
    /\ rb.conn = "open"
    /\ rb.work.width # 0
    /\ rb.work.rows = <<>>
    /\ rb.values # <<>>
    /\ rb.before.rows # <<>>
    /\ papers = rb.before

\* C26 (as claimed): when rebuild_vector_db or retrieve_top_k_chunks has
\* ended, returned or raised, the connection it opened is closed.
CE_C26 ==
    /\ rb.pc \in {"respond", "done"} => rb.conn # "open"
    /\ out.op = "generate" => out.retrieval.conn # "open"

\* C27 (as claimed): the embedding step of a rebuild whose dimension
\* detection has succeeded does not fail as unsupported, and a rebuild fails
\* as unsupported only under a provider generate_embeddings has no branch
\* for.
CE_C27 ==
    /\ out.op = "rebuild" => out.err # "unsupported"
    /\ (rb.pc = "done" /\ rb.err = "unsupported")
       => embedding_provider \notin EmbedProviders

\* C28 (as claimed): expand_query returns None when the LLM call has failed
\* (the backend has not answered with a completion, or no request could be
\* sent), and what it returns as expanded query is a completion of the
\* backend.
CE_C28 ==
    out.op = "expand_query"
    => /\ (out.reply # "ok" \/ out.llm.calls = 0)
          => out.expansion.result = "None"
       /\ out.expansion.result = "dict"
          => out.expansion.expanded_query = "text"

\* C29 (as claimed): the embedding_dimension and the embedding_provider of
\* the response of a successful /rebuild are the width of the column the
\* rebuild has created and the provider whose embeddings it has stored, also
\* when requests override the embedding provider while the rebuild runs.
CE_C29 ==
    (rb.pc = "done" /\ rb.status = "success")
    => /\ rb.embedding_dimension = CreateTableWidth(rb.dim)
       /\ rb.embedding_provider = rb.embeddedBy

(***************************************************************************)
(* The chat client.                                                        *)
(***************************************************************************)
\* the run of the script this step is has sent a rebuild, or a query
RebuildSent == out = NoOut /\ out'.op = "client_rebuild"
QuerySent == out = NoOut /\ out'.op = "client_query" /\ out'.sent

\* the step changes the LLM or the embedding provider the session has selected
SelectionChanged ==
    /\ session_state # NoSession
    /\ \/ session_state'.llm_provider # session_state.llm_provider
       \/ session_state'.embedding_provider
              # session_state.embedding_provider

\* C30: a run of the client's script in which the selected LLM or embedding
\* provider changes leaves db_is_fresh false; db_is_fresh goes from false to
\* true only in a run that leaves the selection as it is and has sent a
\* /rebuild for the embedding provider of that selection which has returned
\* status success; a rebuild with another outcome leaves db_is_fresh as it
\* was; and a query is sent only in a run in which db_is_fresh is true, with
\* the providers of the selection.
Thm_C30 ==
    [][/\ SelectionChanged => session_state'.db_is_fresh = "False"
       /\ (session_state.db_is_fresh = "False"
             /\ session_state'.db_is_fresh = "True")
          => /\ ~SelectionChanged
             /\ RebuildSent
             /\ out'.result = "success"
             /\ out'.embedding_provider
                   = provider_map[session_state'.model_mode][2]
       /\ (RebuildSent /\ out'.result # "success")
          => session_state'.db_is_fresh = session_state.db_is_fresh
       /\ QuerySent
          => /\ session_state.db_is_fresh = "True"
             /\ session_state'.db_is_fresh = "True"
             /\ out'.llm_provider
                   = provider_map[session_state'.model_mode][1]
             /\ out'.embedding_provider
                   = provider_map[session_state'.model_mode][2]]_vars

\* after a change of the selection to Bedrock, a rebuild for bedrock has
\* returned success and db_is_fresh is true
W_C30 ==
    /\ out.op = "client_rebuild"
    /\ out.result = "success"
    /\ out.embedding_provider = "bedrock"
    /\ session_state.model_mode = "Bedrock"
    /\ session_state.db_is_fresh = "True"

====
